---- MODULE Spec2Model ----
(***************************************************************************)
(* Model of SocketBridge (socketbridge.cpp): a TCP client and a UDP server *)
(* sharing one boost::asio io_service.  A completed asynchronous operation *)
(* puts its handler on the io_service queue (ready); io_service::run takes *)
(* the handlers from that queue one at a time, on one thread.              *)
(***************************************************************************)
EXTENDS Integers, Sequences, FiniteSets, TLC

\* const int packetSize = 56
packetSize == 56

\* Length of a datagram / of the bytes read before EOF that is shorter than
\* packetSize.
ShortLen == 10
\* Number of packets (datagrams and frames together) that the two sockets
\* deliver without error in a run.
MaxIn == 2

\* The values of a char that the model tells apart.
Byte == {0, 1}
\* Addresses of UDP endpoints: the configured (udpIp, udpPort) and a host that
\* sends datagrams to it.
UdpConfigured == "udpIp:udpPort"
Peers == {"peer"}

\* Arrays of chars are written run by run: <<b, n>> is n chars equal to b, and
\* an array is the sequence of its runs, no two neighbours of the same char.
\* Fill(b, n) is the array of n chars all equal to b.
Fill(b, n) == IF n = 0 THEN <<>> ELSE <<<<b, n>>>>

\* The number of chars of the array d.
RECURSIVE Size(_)
Size(d) == IF d = <<>> THEN 0 ELSE Head(d)[2] + Size(Tail(d))

\* The first k chars of d (all of d when it has fewer).
RECURSIVE Take(_, _)
Take(d, k) ==
  IF k = 0 \/ d = <<>> THEN <<>>
  ELSE IF Head(d)[2] <= k THEN <<Head(d)>> \o Take(Tail(d), k - Head(d)[2])
  ELSE <<<<Head(d)[1], k>>>>

\* d without its first k chars.
RECURSIVE Drop(_, _)
Drop(d, k) ==
  IF k = 0 \/ d = <<>> THEN d
  ELSE IF Head(d)[2] <= k THEN Drop(Tail(d), k - Head(d)[2])
  ELSE <<<<Head(d)[1], Head(d)[2] - k>>>> \o Tail(d)

\* The runs of d with neighbours of the same char joined.
RECURSIVE Joined(_)
Joined(d) ==
  IF Len(d) < 2 THEN d
  ELSE IF d[1][1] = d[2][1]
         THEN Joined(<<<<d[1][1], d[1][2] + d[2][2]>>>> \o Tail(Tail(d)))
         ELSE <<d[1]>> \o Joined(Tail(d))

\* The datagrams that arrive: of packetSize bytes, and shorter.
Datagrams == {Fill(0, packetSize), Fill(1, packetSize), Fill(1, ShortLen)}
\* The frames the TCP peer sends.
Frames == {Fill(0, packetSize), Fill(1, packetSize)}
\* The bytes an async_read has read when it ends in EOF or an error.
PartialReads == {<<>>, Fill(1, ShortLen)}

VARIABLES
  pc,                 \* position of startConnections
  cur,                \* position inside the completion handler being run
  ready,              \* io_service queue of completed operations' handlers
  log,                \* the kinds of line written to std::cerr so far
  tcp_socket_,        \* TCP_Client::socket_
  tcp_recv_buffer_,   \* TCP_Client::recv_buffer_
  udpServer,          \* TCP_Client::udpServer is set
  connectOp,          \* the async_connect is outstanding
  tcpReadOp,          \* an async_read is outstanding
  tcpWrites,          \* the async_write operations outstanding, oldest first
  udp_socket_,        \* UDP_Server::socket_
  udp_recv_buffer_,   \* UDP_Server::recv_buffer_
  remote_endpoint_,   \* UDP_Server::remote_endpoint_
  tcpServer,          \* UDP_Server::tcpServer is set
  udpRecvOp,          \* an async_receive_from is outstanding
  udpSends,           \* the async_send_to operations outstanding, oldest first
  wire,               \* the payloads the two sockets have transmitted
  hist                \* record of what has been received, issued and counted

coordVars == <<pc, cur, ready, log>>
tcpVars == <<tcp_socket_, tcp_recv_buffer_, udpServer, connectOp, tcpReadOp, tcpWrites>>
udpVars == <<udp_socket_, udp_recv_buffer_, remote_endpoint_, tcpServer, udpRecvOp, udpSends>>
vars == <<coordVars, tcpVars, udpVars, wire, hist>>

\* A receive of the bytes d into the buffer buf: boost::asio::buffer(recv_buffer_,
\* packetSize) takes at most packetSize bytes and leaves the rest of buf as it was.
Overwrite(buf, d) ==
  Joined(Take(d, packetSize) \o Drop(buf, Size(Take(d, packetSize))))

\* What the socket transmits for an async_write or async_send_to of
\* boost::asio::buffer(message, packetSize), message being the parameter,
\* passed by value, of handle_write / handle_send.  The operation the socket
\* performs inside the call transmits the chars of message.  The operation
\* it cannot perform at once (the socket is not writable yet) is performed
\* after the call has returned and reads the storage of a parameter that no
\* longer exists: its chars are any values.
Transmitted(message) == {message} \cup {Fill(b, packetSize) : b \in Byte}

\* The state of the TCP endpoint in the terms of the state machine
\* Connecting -> Connected -> Closed: a socket whose connect failed and a
\* closed socket are both Closed.
TcpState ==
  CASE tcp_socket_ = "none" -> "None"
    [] tcp_socket_ = "connecting" -> "Connecting"
    [] tcp_socket_ = "connected" -> "Connected"
    [] OTHER -> "Closed"

\* A handler on the io_service queue: the operation, its error_code (ok = !ec),
\* the bytes the operation delivered, and whether the operation was issued on
\* a TCP endpoint that was Closed already.
Handler(h, ok, pkt, closed) == [h |-> h, ok |-> ok, pkt |-> pkt, closed |-> closed]

\* The lines on std::cerr, by kind: the exception caught by startConnections
\* and the failure reported by each handler.
Categories == {"exception", "connect", "tcp_read", "tcp_write", "udp_recv", "udp_send"}
Logged(c) == log \cup {c}

\* The state at the entry of startConnections.  The constructors do not
\* initialise the two recv_buffer_ arrays: their chars are any values.
Init ==
  /\ pc = "resolve"
  /\ cur = "idle"
  /\ ready = <<>>
  /\ log = {}
  /\ tcp_socket_ = "none"
  /\ tcp_recv_buffer_ \in {Fill(b, packetSize) : b \in Byte}
  /\ udp_recv_buffer_ \in {Fill(b, packetSize) : b \in Byte}
  /\ udpServer = FALSE
  /\ connectOp = FALSE
  /\ tcpReadOp = FALSE
  /\ tcpWrites = <<>>
  /\ udp_socket_ = "none"
  /\ remote_endpoint_ = UdpConfigured
  /\ tcpServer = FALSE
  /\ udpRecvOp = FALSE
  /\ udpSends = <<>>
  /\ wire = [tcp |-> <<>>, udp |-> <<>>]
  /\ hist = [udpIn |-> 0, tcpIn |-> 0,
             udpArrived |-> <<>>, tcpArrived |-> <<>>,
             udpHandled |-> <<>>, tcpIssued |-> <<>>,
             tcpHandled |-> <<>>, udpIssued |-> <<>>,
             tcpReads |-> 0, udpRecvs |-> 0,
             tcpReadsDone |-> 0, udpRecvsDone |-> 0,
             closedSends |-> 0, closedFails |-> 0,
             sentConnecting |-> FALSE, sentAfterFail |-> FALSE,
             connectResult |-> "pending", everConnected |-> FALSE,
             thrownBy |-> "none", udpFailed |-> FALSE]

(***************************************************************************)
(* The operations of the two endpoints.  Each takes the io_service queue   *)
(* rq as its caller leaves it and states what the call changes.            *)
(***************************************************************************)

\* TCP_Client::start_read: issues an async_read of packetSize bytes.  On a
\* socket that is not connected the operation completes with an error at once.
\* h is the record hist as the caller leaves it.
TCP_start_read(rq, h) ==
  /\ hist' = [h EXCEPT !.tcpReads = @ + 1,
                       !.tcpReadsDone = @ + (IF tcp_socket_ = "connected" THEN 0 ELSE 1)]
  /\ IF tcp_socket_ = "connected"
       THEN /\ tcpReadOp' = TRUE
            /\ ready' = rq
       ELSE /\ tcpReadOp' = tcpReadOp
            /\ ready' = Append(rq, Handler("tcp_read", FALSE, <<>>, TRUE))

\* The handlers socket_.close() releases: every outstanding operation of the
\* socket completes with operation_aborted.
Aborted ==
  (IF tcpReadOp THEN <<Handler("tcp_read", FALSE, <<>>, FALSE)>> ELSE <<>>)
  \o (IF connectOp THEN <<Handler("connect", FALSE, <<>>, FALSE)>> ELSE <<>>)
  \o [i \in 1..Len(tcpWrites) |-> Handler("tcp_write", FALSE, tcpWrites[i], FALSE)]

\* this->socket_.close() of the TCP client.  h is the record hist as the
\* caller leaves it.
TCP_close(rq, h) ==
  /\ hist' = [h EXCEPT !.connectResult = IF connectOp THEN "aborted" ELSE @,
                       !.tcpReadsDone = @ + (IF tcpReadOp THEN 1 ELSE 0)]
  /\ tcp_socket_' = "closed"
  /\ connectOp' = FALSE
  /\ tcpReadOp' = FALSE
  /\ tcpWrites' = <<>>
  /\ ready' = rq \o Aborted

\* handle_write as it would be if it skipped the write while an earlier one
\* is outstanding.
handle_write_skipsWhenBusy(message, rq, h) ==
  /\ hist' = [h EXCEPT !.tcpIssued = IF tcpWrites = <<>> THEN Append(@, message) ELSE @,
                       !.closedSends = @ + (IF TcpState = "Closed" THEN 1 ELSE 0),
                       !.sentConnecting = @ \/ TcpState = "Connecting"]
  /\ IF tcp_socket_ \in {"connecting", "connected"}
       THEN /\ tcpWrites' = IF tcpWrites = <<>> THEN Append(tcpWrites, message) ELSE tcpWrites
            /\ ready' = rq
       ELSE /\ tcpWrites' = tcpWrites
            /\ ready' = Append(rq, Handler("tcp_write", FALSE, message, TRUE))

\* handle_write as it would be if it returned at once on a socket that is not
\* open, reporting nothing.
handle_write_silentWhenClosed(message, rq, h) ==
  /\ hist' = [h EXCEPT !.tcpIssued = Append(@, message),
                       !.closedSends = @ + (IF TcpState = "Closed" THEN 1 ELSE 0),
                       !.sentConnecting = @ \/ TcpState = "Connecting"]
  /\ IF tcp_socket_ \in {"connecting", "connected"}
       THEN /\ tcpWrites' = Append(tcpWrites, message)
            /\ ready' = rq
       ELSE /\ tcpWrites' = tcpWrites
            /\ ready' = IF tcp_socket_ = "closed"
                          THEN rq
                          ELSE Append(rq, Handler("tcp_write", FALSE, message, TRUE))

\* TCP_Client::handle_write(message): issues an async_write of message,
\* whatever the state of the socket.  On a socket that is closed, or whose
\* connect has failed, the write completes with an error at once.
handle_write(message, rq, h) ==
  /\ hist' = [h EXCEPT !.tcpIssued = Append(@, message),
                       !.closedSends = @ + (IF TcpState = "Closed" THEN 1 ELSE 0),
                       !.sentConnecting = @ \/ TcpState = "Connecting"]
  /\ IF tcp_socket_ \in {"connecting", "connected"}
       THEN /\ tcpWrites' = Append(tcpWrites, message)
            /\ ready' = rq
       ELSE /\ tcpWrites' = tcpWrites
            /\ ready' = Append(rq, Handler("tcp_write", FALSE, message, TRUE))

\* UDP_Server::start_read: issues an async_receive_from into recv_buffer_ and
\* remote_endpoint_.
UDP_start_read(rq, h) ==
  /\ hist' = [h EXCEPT !.udpRecvs = @ + 1,
                       !.udpRecvsDone = @ + (IF udp_socket_ = "bound" THEN 0 ELSE 1),
                       !.udpFailed = @ \/ udp_socket_ # "bound"]
  /\ IF udp_socket_ = "bound"
       THEN /\ udpRecvOp' = TRUE
            /\ ready' = rq
       ELSE /\ udpRecvOp' = udpRecvOp
            /\ ready' = Append(rq, Handler("udp_recv", FALSE, <<>>, FALSE))

\* handle_send as it would be if it sent the UDP server's own recv_buffer_
\* instead of its argument.
handle_send_ownBuffer(message, rq, h) ==
  /\ hist' = [h EXCEPT !.udpIssued = Append(@, [data |-> udp_recv_buffer_, dest |-> remote_endpoint_]),
                       !.sentAfterFail = @ \/ "udp_send" \in log]
  /\ IF udp_socket_ = "bound"
       THEN /\ udpSends' = Append(udpSends, [data |-> udp_recv_buffer_, dest |-> remote_endpoint_])
            /\ ready' = rq
       ELSE /\ udpSends' = udpSends
            /\ ready' = Append(rq, Handler("udp_send", FALSE, udp_recv_buffer_, FALSE))

\* UDP_Server::handle_send(message): issues an async_send_to of message to
\* remote_endpoint_ as it is at the call.
handle_send(message, rq, h) ==
  /\ hist' = [h EXCEPT !.udpIssued = Append(@, [data |-> message, dest |-> remote_endpoint_]),
                       !.sentAfterFail = @ \/ "udp_send" \in log]
  /\ IF udp_socket_ = "bound"
       THEN /\ udpSends' = Append(udpSends, [data |-> message, dest |-> remote_endpoint_])
            /\ ready' = rq
       ELSE /\ udpSends' = udpSends
            /\ ready' = Append(rq, Handler("udp_send", FALSE, message, FALSE))

(***************************************************************************)
(* SocketBridge::startConnections                                          *)
(***************************************************************************)

\* resolver.resolve({tcpIp, tcpPort}): returns the endpoints or throws; the
\* exception is caught at the end of startConnections and reported.
Resolve ==
  /\ pc = "resolve"
  /\ \E ok \in BOOLEAN :
       IF ok THEN pc' = "udp_ctor" /\ log' = log /\ hist' = hist
             ELSE /\ pc' = "done"
                  /\ log' = Logged("exception")
                  /\ hist' = [hist EXCEPT !.thrownBy = "resolve"]
  /\ UNCHANGED <<wire, cur, ready, tcpVars, udpVars>>

\* UDP_Server::UDP_Server as it would be if it caught the failure of bind
\* itself, reported it and returned without start_read.
UDP_Server_catchesBindFailure ==
  /\ pc = "udp_ctor"
  /\ pc' = "tcp_ctor"
  /\ \E ok \in BOOLEAN :
       IF ok
         THEN /\ log' = log
              /\ udp_socket_' = "bound"
              /\ udpRecvOp' = TRUE
              /\ hist' = [hist EXCEPT !.udpRecvs = @ + 1]
         ELSE /\ log' = Logged("exception")
              /\ hist' = [hist EXCEPT !.thrownBy = "UDP_Server"]
              /\ UNCHANGED <<udp_socket_, udpRecvOp>>
  /\ UNCHANGED <<wire, cur, ready, tcpVars, udp_recv_buffer_, remote_endpoint_, tcpServer, udpSends>>

\* UDP_Server::UDP_Server: opens the socket, sets reuse_address (a failure
\* changes nothing but a line on cerr), binds the socket to remote_endpoint_
\* and calls start_read.  Opening, from_string and bind throw on failure.
UDP_Server ==
  /\ pc = "udp_ctor"
  /\ \E ok \in BOOLEAN :
       IF ok
         THEN /\ pc' = "tcp_ctor"
              /\ log' = log
              /\ udp_socket_' = "bound"
              /\ udpRecvOp' = TRUE
              /\ hist' = [hist EXCEPT !.udpRecvs = @ + 1]
         ELSE /\ pc' = "done"
              /\ log' = Logged("exception")
              /\ hist' = [hist EXCEPT !.thrownBy = "UDP_Server"]
              /\ UNCHANGED <<udp_socket_, udpRecvOp>>
  /\ UNCHANGED <<wire, cur, ready, tcpVars, udp_recv_buffer_, remote_endpoint_, tcpServer, udpSends>>

\* TCP_Client::TCP_Client: initiates the async_connect.
TCP_Client ==
  /\ pc = "tcp_ctor"
  /\ pc' = "setUdp"
  /\ tcp_socket_' = "connecting"
  /\ connectOp' = TRUE
  /\ UNCHANGED <<wire, cur, ready, log, tcp_recv_buffer_, udpServer, tcpReadOp, tcpWrites, udpVars, hist>>

\* tcpSock.setUdp(&udpSock)
setUdp ==
  /\ pc = "setUdp"
  /\ pc' = "setTcp"
  /\ udpServer' = TRUE
  /\ UNCHANGED <<wire, cur, ready, log, tcp_socket_, tcp_recv_buffer_, connectOp, tcpReadOp, tcpWrites, udpVars, hist>>

\* udpSock.setTcp(&tcpSock)
setTcp ==
  /\ pc = "setTcp"
  /\ pc' = "run"
  /\ tcpServer' = TRUE
  /\ UNCHANGED <<wire, cur, ready, log, tcpVars, udp_socket_, udp_recv_buffer_, remote_endpoint_, udpRecvOp, udpSends, hist>>

\* io_service.run() as it would be if it returned as soon as no handler is
\* queued, whatever operations are outstanding.
RunReturns_whenQueueEmpty ==
  /\ pc = "run"
  /\ cur = "idle"
  /\ ready = <<>>
  /\ pc' = "done"
  /\ UNCHANGED <<wire, cur, ready, log, tcpVars, udpVars, hist>>

\* io_service.run() returns when no handler is queued and no operation is
\* outstanding.
RunReturns ==
  /\ pc = "run"
  /\ cur = "idle"
  /\ ready = <<>>
  /\ ~connectOp /\ ~tcpReadOp /\ ~udpRecvOp
  /\ tcpWrites = <<>> /\ udpSends = <<>>
  /\ pc' = "done"
  /\ UNCHANGED <<wire, cur, ready, log, tcpVars, udpVars, hist>>

(***************************************************************************)
(* The sockets: an outstanding operation completes, inside run() and       *)
(* between two handlers, and its handler is queued.                        *)
(***************************************************************************)
\* The sockets as they would be if a handler could run as soon as its
\* operation has been issued by a constructor, before io_service.run().
Polling_beforeRun == pc \in {"setUdp", "setTcp", "run"} /\ cur = "idle"

Polling == pc = "run" /\ cur = "idle"

\* The connect succeeds or fails.
ConnectCompletes ==
  /\ Polling
  /\ connectOp /\ tcp_socket_ = "connecting"
  /\ \E ok \in BOOLEAN :
       /\ tcp_socket_' = IF ok THEN "connected" ELSE "failed"
       /\ ready' = Append(ready, Handler("connect", ok, <<>>, FALSE))
       /\ hist' = [hist EXCEPT !.everConnected = @ \/ ok,
                                !.connectResult = IF ok THEN "ok" ELSE "failed"]
  /\ connectOp' = FALSE
  /\ UNCHANGED <<wire, pc, cur, log, tcp_recv_buffer_, udpServer, tcpReadOp, tcpWrites, udpVars>>

\* async_read completes without error when packetSize bytes have been read
\* into recv_buffer_.
TcpReadSucceeds ==
  /\ Polling
  /\ tcpReadOp /\ tcp_socket_ = "connected"
  /\ hist.udpIn + hist.tcpIn < MaxIn
  /\ \E d \in Frames :
       /\ tcp_recv_buffer_' = Overwrite(tcp_recv_buffer_, d)
       /\ ready' = Append(ready, Handler("tcp_read", TRUE, d, FALSE))
       /\ hist' = [hist EXCEPT !.tcpIn = @ + 1,
                               !.tcpArrived = Append(@, d),
                               !.tcpReadsDone = @ + 1]
  /\ tcpReadOp' = FALSE
  /\ UNCHANGED <<wire, pc, cur, log, tcp_socket_, udpServer, connectOp, tcpWrites, udpVars>>

\* async_read completes with an error (EOF, reset) after no byte or after
\* fewer than packetSize bytes.
TcpReadFails ==
  /\ Polling
  /\ tcpReadOp /\ tcp_socket_ = "connected"
  /\ \E d \in PartialReads :
       /\ tcp_recv_buffer_' = Overwrite(tcp_recv_buffer_, d)
       /\ ready' = Append(ready, Handler("tcp_read", FALSE, d, FALSE))
  /\ tcpReadOp' = FALSE
  /\ hist' = [hist EXCEPT !.tcpReadsDone = @ + 1]
  /\ UNCHANGED <<wire, pc, cur, log, tcp_socket_, udpServer, connectOp, tcpWrites, udpVars>>

\* The oldest outstanding async_write completes without error, which takes a
\* connected socket; its handler does nothing when !ec.
TcpWriteSucceeds ==
  /\ Polling
  /\ tcpWrites # <<>>
  /\ tcp_socket_ = "connected"
  /\ tcpWrites' = Tail(tcpWrites)
  /\ \E w \in Transmitted(Head(tcpWrites)) :
       wire' = [wire EXCEPT !.tcp = Append(@, [data |-> Head(tcpWrites), sent |-> w])]
  /\ UNCHANGED <<pc, cur, ready, log, tcp_socket_, tcp_recv_buffer_, udpServer, connectOp, tcpReadOp, udpVars, hist>>

\* The oldest outstanding async_write completes with an error.
TcpWriteFails ==
  /\ Polling
  /\ tcpWrites # <<>>
  /\ ready' = Append(ready, Handler("tcp_write", FALSE, Head(tcpWrites), FALSE))
  /\ tcpWrites' = Tail(tcpWrites)
  /\ UNCHANGED <<wire, pc, cur, log, tcp_socket_, tcp_recv_buffer_, udpServer, connectOp, tcpReadOp, udpVars, hist>>

\* async_receive_from completes without error with a datagram of n bytes
\* from the sender s: the bytes go to recv_buffer_, the sender to
\* remote_endpoint_.
UdpRecvSucceeds ==
  /\ Polling
  /\ udpRecvOp /\ udp_socket_ = "bound"
  /\ hist.udpIn + hist.tcpIn < MaxIn
  /\ \E s \in Peers, d \in Datagrams :
       /\ udp_recv_buffer_' = Overwrite(udp_recv_buffer_, d)
       /\ remote_endpoint_' = s
       /\ ready' = Append(ready, Handler("udp_recv", TRUE, d, FALSE))
       /\ hist' = [hist EXCEPT !.udpIn = @ + 1,
                               !.udpArrived = Append(@, d),
                               !.udpRecvsDone = @ + 1]
  /\ udpRecvOp' = FALSE
  /\ UNCHANGED <<wire, pc, cur, log, tcpVars, udp_socket_, tcpServer, udpSends>>

\* async_receive_from completes with an error.
UdpRecvFails ==
  /\ Polling
  /\ udpRecvOp /\ udp_socket_ = "bound"
  /\ ready' = Append(ready, Handler("udp_recv", FALSE, <<>>, FALSE))
  /\ udpRecvOp' = FALSE
  /\ hist' = [hist EXCEPT !.udpRecvsDone = @ + 1, !.udpFailed = TRUE]
  /\ UNCHANGED <<wire, pc, cur, log, tcpVars, udp_socket_, udp_recv_buffer_, remote_endpoint_, tcpServer, udpSends>>

\* The handler of async_send_to as it would be if it closed the socket when
\* ec, as the handler of async_write does.
UdpSendHandler_closesOnError ==
  /\ Polling
  /\ udpSends # <<>>
  /\ \E ok \in BOOLEAN :
       IF ok
         THEN /\ log' = log
              /\ \E w \in Transmitted(Head(udpSends).data) :
                   wire' = [wire EXCEPT !.udp = Append(@, [data |-> Head(udpSends).data,
                                                          dest |-> Head(udpSends).dest,
                                                          sent |-> w])]
              /\ UNCHANGED <<ready, udp_socket_, udpRecvOp>>
         ELSE /\ log' = Logged("udp_send")
              /\ wire' = wire
              /\ udp_socket_' = "closed"
              /\ udpRecvOp' = FALSE
              /\ ready' = ready \o (IF udpRecvOp
                                      THEN <<Handler("udp_recv", FALSE, <<>>, FALSE)>>
                                      ELSE <<>>)
  /\ udpSends' = Tail(udpSends)
  /\ UNCHANGED <<pc, cur, tcpVars, udp_recv_buffer_, remote_endpoint_, tcpServer, hist>>

\* The oldest outstanding async_send_to completes and its handler runs: when
\* ec, a line on cerr, and nothing else.
UdpSendHandler ==
  /\ Polling
  /\ udpSends # <<>>
  /\ \E ok \in BOOLEAN :
       IF ok
         THEN /\ log' = log
              /\ \E w \in Transmitted(Head(udpSends).data) :
                   wire' = [wire EXCEPT !.udp = Append(@, [data |-> Head(udpSends).data,
                                                          dest |-> Head(udpSends).dest,
                                                          sent |-> w])]
         ELSE /\ log' = Logged("udp_send")
              /\ wire' = wire
  /\ udpSends' = Tail(udpSends)
  /\ UNCHANGED <<pc, cur, ready, tcpVars, udp_socket_, udp_recv_buffer_, remote_endpoint_, tcpServer, udpRecvOp, hist>>

(***************************************************************************)
(* The completion handlers, run by io_service.run() from the queue.        *)
(***************************************************************************)
Runs(h) == Polling /\ ready # <<>> /\ Head(ready).h = h

\* The handler of async_connect as it would be if it called start_read()
\* whatever the error_code.
ConnectHandler_readsAnyway ==
  /\ Runs("connect")
  /\ TCP_start_read(Tail(ready), hist)
  /\ log' = IF Head(ready).ok THEN log ELSE Logged("connect")
  /\ UNCHANGED <<wire, pc, cur, tcp_socket_, tcp_recv_buffer_, udpServer, connectOp, tcpWrites, udpVars>>

\* The handler of async_connect: start_read() when !ec, a line on cerr
\* otherwise.
ConnectHandler ==
  /\ Runs("connect")
  /\ IF Head(ready).ok
       THEN /\ TCP_start_read(Tail(ready), hist)
            /\ log' = log
       ELSE /\ log' = Logged("connect")
            /\ ready' = Tail(ready)
            /\ UNCHANGED <<tcpReadOp, hist>>
  /\ UNCHANGED <<wire, pc, cur, tcp_socket_, tcp_recv_buffer_, udpServer, connectOp, tcpWrites, udpVars>>

\* The handler of async_read, when !ec, as it would be if it called
\* start_read() before udpServer->handle_send(recv_buffer_).
TcpReadHandler_rearmsFirst ==
  /\ Runs("tcp_read")
  /\ Head(ready).ok
  /\ handle_send(tcp_recv_buffer_,
                 IF tcp_socket_ = "connected"
                   THEN Tail(ready)
                   ELSE Append(Tail(ready), Handler("tcp_read", FALSE, <<>>, TRUE)),
                 [hist EXCEPT !.tcpHandled = Append(@, Head(ready).pkt),
                              !.tcpReads = @ + 1,
                              !.tcpReadsDone = @ + (IF tcp_socket_ = "connected" THEN 0 ELSE 1)])
  /\ tcpReadOp' = (tcpReadOp \/ tcp_socket_ = "connected")
  /\ UNCHANGED <<wire, pc, cur, log, tcp_socket_, tcp_recv_buffer_, udpServer, connectOp, tcpWrites>>
  /\ UNCHANGED <<udp_socket_, udp_recv_buffer_, remote_endpoint_, tcpServer, udpRecvOp>>

\* The handler of async_read, when !ec: udpServer->handle_send(recv_buffer_).
TcpReadHandler ==
  /\ Runs("tcp_read")
  /\ Head(ready).ok
  /\ handle_send(tcp_recv_buffer_, Tail(ready),
                 [hist EXCEPT !.tcpHandled = Append(@, Head(ready).pkt)])
  /\ cur' = "tcp_rearm"
  /\ UNCHANGED <<wire, pc, log, tcpVars, udp_socket_, udp_recv_buffer_, remote_endpoint_, tcpServer, udpRecvOp>>

\* ... and then this->start_read().
TcpReadRearm ==
  /\ pc = "run" /\ cur = "tcp_rearm"
  /\ TCP_start_read(ready, hist)
  /\ cur' = "idle"
  /\ UNCHANGED <<wire, pc, log, tcp_socket_, tcp_recv_buffer_, udpServer, connectOp, tcpWrites, udpVars>>

\* The handler of async_read, when ec: a line on cerr and socket_.close().
TcpReadErrorHandler ==
  /\ Runs("tcp_read")
  /\ ~Head(ready).ok
  /\ log' = Logged("tcp_read")
  /\ TCP_close(Tail(ready), hist)
  /\ UNCHANGED <<wire, pc, cur, tcp_recv_buffer_, udpServer, udpVars>>

\* The handler of async_write, when ec: a line on cerr and socket_.close().
TcpWriteErrorHandler ==
  /\ Runs("tcp_write")
  /\ log' = Logged("tcp_write")
  /\ TCP_close(Tail(ready),
               [hist EXCEPT !.closedFails = @ + (IF Head(ready).closed THEN 1 ELSE 0)])
  /\ UNCHANGED <<wire, pc, cur, tcp_recv_buffer_, udpServer, udpVars>>

\* The handler of async_receive_from, when !ec:
\* tcpServer->handle_write(recv_buffer_).
UdpRecvHandler ==
  /\ Runs("udp_recv")
  /\ Head(ready).ok
  /\ handle_write(udp_recv_buffer_, Tail(ready),
                  [hist EXCEPT !.udpHandled = Append(@, Head(ready).pkt)])
  /\ cur' = "udp_rearm"
  /\ UNCHANGED <<wire, pc, log, tcp_socket_, tcp_recv_buffer_, udpServer, connectOp, tcpReadOp, udpVars>>

\* The second step of the receive handler as it would be if it called
\* start_read() only while the TCP socket is not closed.
UdpRecvRearm_stopsWhenTcpClosed ==
  /\ pc = "run" /\ cur = "udp_rearm"
  /\ IF tcp_socket_ = "closed"
       THEN UNCHANGED <<ready, udpRecvOp, hist>>
       ELSE UDP_start_read(ready, hist)
  /\ cur' = "idle"
  /\ UNCHANGED <<wire, pc, log, tcpVars, udp_socket_, udp_recv_buffer_, remote_endpoint_, tcpServer, udpSends>>

\* ... and then start_read().
UdpRecvRearm ==
  /\ pc = "run" /\ cur = "udp_rearm"
  /\ UDP_start_read(ready, hist)
  /\ cur' = "idle"
  /\ UNCHANGED <<wire, pc, log, tcpVars, udp_socket_, udp_recv_buffer_, remote_endpoint_, tcpServer, udpSends>>

\* The handler of async_receive_from, when ec, as it would be if it called
\* start_read() again after the line on cerr.
UdpRecvErrorHandler_retries ==
  /\ Runs("udp_recv")
  /\ ~Head(ready).ok
  /\ log' = Logged("udp_recv")
  /\ UDP_start_read(Tail(ready), hist)
  /\ UNCHANGED <<wire, pc, cur, tcpVars, udp_socket_, udp_recv_buffer_, remote_endpoint_, tcpServer, udpSends>>

\* The handler of async_receive_from, when ec: a line on cerr.
UdpRecvErrorHandler ==
  /\ Runs("udp_recv")
  /\ ~Head(ready).ok
  /\ log' = Logged("udp_recv")
  /\ ready' = Tail(ready)
  /\ UNCHANGED <<wire, pc, cur, tcpVars, udpVars, hist>>

Next ==
  \/ Resolve \/ UDP_Server \/ TCP_Client \/ setUdp \/ setTcp \/ RunReturns
  \/ ConnectCompletes \/ TcpReadSucceeds \/ TcpReadFails
  \/ TcpWriteSucceeds \/ TcpWriteFails
  \/ UdpRecvSucceeds \/ UdpRecvFails
  \/ ConnectHandler
  \/ TcpReadHandler \/ TcpReadRearm \/ TcpReadErrorHandler \/ TcpWriteErrorHandler
  \/ UdpRecvHandler \/ UdpRecvRearm \/ UdpRecvErrorHandler \/ UdpSendHandler

Spec == Init /\ [][Next]_vars

\* io_service.run() runs the handler at the head of the queue, and goes on
\* until the queue is empty and no operation is outstanding.
RunHandler ==
  \/ ConnectHandler
  \/ TcpReadHandler \/ TcpReadRearm \/ TcpReadErrorHandler \/ TcpWriteErrorHandler
  \/ UdpRecvHandler \/ UdpRecvRearm \/ UdpRecvErrorHandler

FairSpec == Spec /\ WF_vars(RunHandler)

\* ... and returns when there is none left.  The UDP socket completes every
\* send-to, with or without an error.
FairRunSpec == FairSpec /\ WF_vars(RunReturns) /\ WF_vars(UdpSendHandler)
(***************************************************************************)
(* Properties                                                              *)
(***************************************************************************)

\* The number of handlers of operation h queued with !ec.
QueuedOk(h) == Cardinality({i \in DOMAIN ready : ready[i].h = h /\ ready[i].ok})

\* The number of queued handlers of writes issued on a Closed TCP endpoint.
QueuedClosedWrites ==
  Cardinality({i \in DOMAIN ready : ready[i].h = "tcp_write" /\ ready[i].closed})

\* C1: every datagram received without error is handed to handle_write once,
\* its handler being queued until then; the writes are issued one per
\* datagram in the order of arrival, and the write issued for a datagram of
\* packetSize bytes carries exactly its bytes.
C1_UdpToTcpForwarding ==
  /\ hist.udpIn = Len(hist.udpHandled) + QueuedOk("udp_recv")
  /\ Len(hist.tcpIssued) = Len(hist.udpHandled)
  /\ \A i \in 1..Len(hist.udpHandled) :
       Size(hist.udpHandled[i]) = packetSize => hist.tcpIssued[i] = hist.udpHandled[i]

\* Two different datagrams of packetSize bytes have been forwarded.
C1_Witness ==
  /\ Len(hist.tcpIssued) = 2
  /\ hist.tcpIssued[1] # hist.tcpIssued[2]
  /\ \A i \in 1..2 : Size(hist.udpHandled[i]) = packetSize

\* C2: every frame read without error is handed to handle_send once, the
\* send-to issued carries exactly the frame's bytes, and a TCP read is issued
\* again only after the send-to of the frame before it: the reads issued are
\* at most one more than the send-tos issued.
C2_TcpToUdpForwarding ==
  /\ hist.tcpIn = Len(hist.tcpHandled) + QueuedOk("tcp_read")
  /\ Len(hist.udpIssued) = Len(hist.tcpHandled)
  /\ \A i \in 1..Len(hist.tcpHandled) : hist.udpIssued[i].data = hist.tcpHandled[i]
  /\ hist.tcpReads <= Len(hist.udpIssued) + 1

\* A frame has been sent to the UDP socket and the TCP read is armed again.
C2_Witness ==
  /\ Len(hist.udpIssued) = 1
  /\ hist.tcpReads = 2
  /\ tcpReadOp

\* C3: a read or receive that delivered fewer than packetSize bytes is never
\* treated as a packet: nothing that was forwarded is shorter than packetSize.
C3_ShortFrameRejected ==
  /\ \A i \in 1..Len(hist.udpHandled) : Size(hist.udpHandled[i]) = packetSize
  /\ \A i \in 1..Len(hist.tcpHandled) : Size(hist.tcpHandled[i]) = packetSize

\* C4: every send-to of the UDP endpoint is addressed to the endpoint fixed
\* at construction.
C4_FixedRemotePeer ==
  \A i \in 1..Len(hist.udpIssued) : hist.udpIssued[i].dest = UdpConfigured

\* C5: each handle_write on a Closed TCP endpoint gets exactly one failure
\* report: until it is written its handler is queued, run() does not return
\* before it is written, and it is written eventually, as run() goes on
\* taking handlers from the queue.  The call and the report leave the TCP
\* endpoint Closed, with no read, connect or write outstanding that the call
\* added, and leave the UDP endpoint as it was.
C5_ClosedSendReported ==
  /\ [](/\ hist.closedSends = hist.closedFails + QueuedClosedWrites
        /\ hist.closedFails > 0 => "tcp_write" \in log
        /\ pc = "done" => hist.closedFails = hist.closedSends)
  /\ [][hist.closedSends' # hist.closedSends =>
          /\ TcpState = "Closed" /\ TcpState' = "Closed"
          /\ UNCHANGED <<tcp_socket_, tcp_recv_buffer_, connectOp, tcpReadOp, tcpWrites>>
          /\ UNCHANGED <<udp_socket_, udp_recv_buffer_, remote_endpoint_, udpRecvOp, udpSends>>]_vars
  /\ [][hist.closedFails' # hist.closedFails =>
          /\ TcpState = "Closed" /\ TcpState' = "Closed"
          /\ UNCHANGED <<tcp_recv_buffer_, connectOp, tcpReadOp, udpVars>>]_vars
  /\ \A n \in 1..MaxIn : (hist.closedSends = n) ~> (hist.closedFails >= n)

\* Two sends on a Closed TCP endpoint have both been reported.
C5_Witness ==
  /\ hist.closedSends = 2
  /\ hist.closedFails = 2

\* C6: a handle_write while the TCP endpoint is Connecting leaves the connect
\* pending: the connect is never aborted.
C6_SendWhileConnecting ==
  hist.sentConnecting => hist.connectResult # "aborted"

\* C7: once the TCP endpoint is Closed it stays Closed, no TCP read is issued
\* and no frame is handed to the UDP endpoint.
C7_ClosedIsAbsorbing ==
  [][TcpState = "Closed" =>
       /\ TcpState' = "Closed"
       /\ hist.tcpReads' = hist.tcpReads
       /\ hist.udpIssued' = hist.udpIssued]_vars

\* C8: when the connect has ended in an error the TCP endpoint is Closed, has
\* never been Connected, and no TCP read has been issued; the failure is
\* reported by the handler, queued until then; neither the completion nor
\* the handler changes the UDP endpoint, which is bound.
C8_ConnectFailure ==
  /\ [](hist.connectResult \in {"failed", "aborted"} =>
          /\ TcpState = "Closed"
          /\ ~hist.everConnected
          /\ hist.tcpReads = 0 /\ ~tcpReadOp
          /\ udp_socket_ = "bound"
          /\ \/ "connect" \in log
             \/ \E i \in DOMAIN ready : ready[i].h = "connect" /\ ~ready[i].ok)
  /\ []("connect" \in log => hist.connectResult \in {"failed", "aborted"})
  /\ [][(hist.connectResult' = "failed" /\ hist.connectResult # "failed")
        \/ ("connect" \in log' /\ "connect" \notin log)
          => UNCHANGED udpVars]_vars

\* The connect has failed and been reported, and the UDP receive is armed
\* after a datagram has been handled since.
C8_Witness ==
  /\ hist.connectResult = "failed"
  /\ "connect" \in log
  /\ hist.closedSends > 0
  /\ udpRecvOp

\* C9: once a TCP write has failed and its handler has run, the TCP endpoint
\* is Closed and no TCP read is issued again.
C9_WriteFailureCloses ==
  /\ []("tcp_write" \in log => TcpState = "Closed")
  /\ [][("tcp_write" \in log) => hist.tcpReads' = hist.tcpReads]_vars

\* C10: the completion of a send-to, failed or not, changes nothing but the
\* log: the UDP socket stays bound, the receive stays armed, the TCP endpoint
\* and the queue are as they were; and every handle_send, also after a
\* failure, issues a send-to.
C10_UdpSendFailureNonFatal ==
  /\ [](pc \in {"run"} => udp_socket_ = "bound")
  /\ [][Len(udpSends') < Len(udpSends) =>
          /\ "udp_send" \in log' \/ log' = log
          /\ UNCHANGED <<ready, tcpVars, hist>>
          /\ UNCHANGED <<udp_socket_, udp_recv_buffer_, remote_endpoint_, tcpServer, udpRecvOp>>]_vars
  /\ [][hist.udpIssued' # hist.udpIssued => udpSends' = Append(udpSends, hist.udpIssued'[Len(hist.udpIssued')])]_vars

\* A send-to has failed, the receive is still armed, and a send-to issued
\* after the failure is outstanding.
C10_Witness ==
  /\ "udp_send" \in log
  /\ hist.sentAfterFail
  /\ udpSends # <<>>
  /\ udpRecvOp

\* s is an initial part of t.
IsPrefix(s, t) == Len(s) <= Len(t) /\ \A i \in 1..Len(s) : s[i] = t[i]

\* C11: each endpoint has at most one read or receive outstanding: the ones
\* issued less the ones completed are one when the operation is armed and
\* none otherwise.  A read or receive other than the first is issued only
\* when none is outstanding, every one issued before has completed without
\* error and been handed to the other endpoint, and that forward call has
\* returned.  The packets are handed over in the order of their arrival.
C11_RearmInvariant ==
  /\ [](/\ hist.tcpReads - hist.tcpReadsDone = (IF tcpReadOp THEN 1 ELSE 0)
        /\ hist.udpRecvs - hist.udpRecvsDone = (IF udpRecvOp THEN 1 ELSE 0)
        /\ IsPrefix(hist.tcpHandled, hist.tcpArrived)
        /\ IsPrefix(hist.udpHandled, hist.udpArrived))
  /\ [][hist.tcpReads' # hist.tcpReads =>
          /\ hist.tcpReads' = hist.tcpReads + 1
          /\ hist.tcpReads = hist.tcpReadsDone
          /\ \/ hist.tcpReads = 0
             \/ /\ cur = "tcp_rearm"
                /\ Len(hist.tcpHandled) = hist.tcpReads
                /\ Len(hist.udpIssued) = hist.tcpReads]_vars
  /\ [][hist.udpRecvs' # hist.udpRecvs =>
          /\ hist.udpRecvs' = hist.udpRecvs + 1
          /\ hist.udpRecvs = hist.udpRecvsDone
          /\ \/ hist.udpRecvs = 0
             \/ /\ cur = "udp_rearm"
                /\ Len(hist.udpHandled) = hist.udpRecvs
                /\ Len(hist.tcpIssued) = hist.udpRecvs]_vars

\* Two different frames have been handed to the UDP endpoint in the order of
\* their arrival, and the third read is armed.
C11_Witness ==
  /\ Len(hist.tcpHandled) = 2
  /\ hist.tcpHandled[1] # hist.tcpHandled[2]
  /\ hist.tcpHandled = hist.tcpArrived
  /\ hist.tcpReads = 3
  /\ tcpReadOp

\* C12: when resolve or the constructor of UDP_Server has thrown, the
\* exception has been reported, startConnections has returned, and nothing
\* happens any more: io_service.run() is not called, no handler has been
\* queued or run, nothing has been received or issued, the TCP client has
\* not been constructed and no receive is armed.  Nothing but these two
\* failures makes startConnections report an exception.
C12_StartupFailure ==
  /\ []((hist.thrownBy # "none") <=> ("exception" \in log))
  /\ [](hist.thrownBy # "none" =>
          /\ pc = "done" /\ cur = "idle" /\ ready = <<>>
          /\ log = {"exception"}
          /\ tcp_socket_ = "none" /\ ~connectOp /\ ~tcpReadOp /\ tcpWrites = <<>>
          /\ udp_socket_ = "none" /\ ~udpRecvOp /\ udpSends = <<>>
          /\ ~udpServer /\ ~tcpServer
          /\ hist.udpArrived = <<>> /\ hist.tcpArrived = <<>>
          /\ hist.tcpIssued = <<>> /\ hist.udpIssued = <<>>
          /\ hist.tcpReads = 0 /\ hist.udpRecvs = 0)
  /\ [][hist.thrownBy # "none" => UNCHANGED vars]_vars
  /\ [][pc' = "run" => hist.thrownBy = "none" /\ udp_socket_ = "bound"]_vars

\* The constructor of UDP_Server has thrown after resolve succeeded, and
\* startConnections has returned.
C12_Witness ==
  /\ hist.thrownBy = "UDP_Server"
  /\ pc = "done"
  /\ "exception" \in log

C14_UdpReceiveFailureStops ==
  /\ [](hist.udpFailed =>
          /\ ~udpRecvOp /\ cur # "udp_rearm"
          /\ \/ "udp_recv" \in log
             \/ \E i \in DOMAIN ready : ready[i].h = "udp_recv" /\ ~ready[i].ok)
  /\ []("udp_recv" \in log => hist.udpFailed)
  /\ [][hist.udpFailed =>
          /\ hist.udpFailed'
          /\ hist.udpRecvs' = hist.udpRecvs
          /\ hist.udpArrived' = hist.udpArrived
          /\ hist.udpHandled' = hist.udpHandled
          /\ hist.tcpIssued' = hist.tcpIssued]_vars
  /\ hist.udpFailed ~> ("udp_recv" \in log)

\* A receive has failed after one datagram was forwarded and the failure is
\* on cerr; a frame has been read from TCP and sent, and the TCP read is
\* armed.
C14_Witness ==
  /\ "udp_recv" \in log
  /\ hist.udpRecvs = 2 /\ Len(hist.udpHandled) = 1
  /\ ~udpRecvOp
  /\ Len(hist.udpIssued) = 1 /\ udpSends = <<>>
  /\ tcpReadOp

\* C15: what a write or a send-to has transmitted is the payload as it was
\* at the call of handle_write / handle_send, also when the socket performs
\* the operation after the call has returned.
C15_InFlightPayloadStable ==
  /\ \A i \in 1..Len(wire.tcp) : wire.tcp[i].sent = wire.tcp[i].data
  /\ \A i \in 1..Len(wire.udp) : wire.udp[i].sent = wire.udp[i].data

\* C16: every datagram handed to handle_write while the socket is open has
\* one more write issued at once, however many writes are outstanding: the
\* write of recv_buffer_ joins the outstanding ones, none of which is
\* dropped, replaced or merged.  The writes outstanding are never more than
\* the datagrams handed over.
C16_NoWriteQueueing ==
  /\ [](Len(tcpWrites) <= Len(hist.udpHandled))
  /\ [][hist.udpHandled' # hist.udpHandled =>
          /\ Len(hist.tcpIssued') = Len(hist.tcpIssued) + 1
          /\ tcp_socket_ \in {"connecting", "connected"} =>
                tcpWrites' = Append(tcpWrites, udp_recv_buffer_)]_vars

\* Two writes are outstanding on the connected socket, as many as datagrams
\* have been received, the second issued while the first was outstanding.
C16_Witness ==
  /\ tcp_socket_ = "connected"
  /\ Len(tcpWrites) = 2
  /\ tcpWrites = hist.tcpIssued
  /\ wire.tcp = <<>>
  /\ hist.everConnected /\ ~hist.sentConnecting

\* C17: io_service.run() returns only when no handler is queued and no
\* connect, read, receive, write or send-to is outstanding, and once it has
\* returned nothing happens any more.  When the TCP endpoint is Closed, a
\* UDP receive has failed and no write or send-to is outstanding, run()
\* returns in the end.
C17_EventLoopTermination ==
  /\ [](pc = "done" /\ hist.thrownBy = "none" =>
          /\ ready = <<>> /\ cur = "idle"
          /\ ~connectOp /\ ~tcpReadOp /\ ~udpRecvOp
          /\ tcpWrites = <<>> /\ udpSends = <<>>
          /\ TcpState = "Closed" /\ hist.udpFailed)
  /\ [][pc = "done" => UNCHANGED vars]_vars
  /\ (/\ pc = "run"
      /\ TcpState = "Closed" /\ hist.udpFailed
      /\ tcpWrites = <<>> /\ udpSends = <<>>) ~> (pc = "done")

\* run() has returned after a session in which the TCP socket was connected
\* and a datagram was forwarded: the UDP receive has failed and the TCP
\* socket has been closed.
C17_Witness ==
  /\ pc = "done"
  /\ hist.thrownBy = "none"
  /\ hist.everConnected
  /\ Len(hist.udpHandled) > 0
  /\ "udp_recv" \in log
  /\ tcp_socket_ = "closed"

\* C18: while setUdp and setTcp have not both been called, the connect and
\* the first receive, issued by the constructors, are outstanding and no
\* handler is queued or run; a handler is queued or run, and a packet is
\* handed to udpServer or tcpServer, only inside io_service.run(), where
\* both pointers are set.
C18_WiringPrecedesRelaying ==
  /\ [](pc \in {"setUdp", "setTcp"} =>
          /\ connectOp /\ udpRecvOp
          /\ ~tcpServer
          /\ ready = <<>> /\ cur = "idle" /\ log = {})
  /\ [](pc = "run" => udpServer /\ tcpServer)
  /\ [][ready' # ready \/ cur' # cur => pc = "run" /\ udpServer /\ tcpServer]_vars
  /\ [][hist.tcpHandled' # hist.tcpHandled => udpServer]_vars
  /\ [][hist.udpHandled' # hist.udpHandled => tcpServer]_vars

\* Packets have been relayed both ways, by handlers that found the pointers
\* set.
C18_Witness ==
  /\ Len(hist.tcpHandled) > 0
  /\ Len(hist.udpHandled) > 0
  /\ udpServer /\ tcpServer

\* C19: no send-to is addressed to (udpIp, udpPort), the address the
\* constructor has bound the relay's own UDP socket to; neither a send-to
\* issued nor a datagram transmitted has it as its destination.
C19_NoReflection ==
  /\ \A i \in 1..Len(hist.udpIssued) : hist.udpIssued[i].dest # UdpConfigured
  /\ \A i \in 1..Len(wire.udp) : wire.udp[i].dest # UdpConfigured
====
